---- MODULE Spec2Model ----
(***************************************************************************)
(* A model of apps/resize/resize_generator.cpp: the four interpolation     *)
(* kernels, the per-coordinate kernel tables, the two separable resampling *)
(* pipelines selected by the upsample parameter, and the tiled schedule.   *)
(*                                                                         *)
(* Arithmetic is IEEE binary32, as the source's float Exprs are.  A float  *)
(* is a pair <<m, e>> standing for m * 2^e: m = 0 and e = 0 for zero,      *)
(* 2^23 <= |m| < 2^24 otherwise, so that equal values are equal pairs.     *)
(* The specials share the exponent of NaN: NaN is <<0, 1000>>, +inf is     *)
(* <<1, 1000>>, -inf is <<-1, 1000>>.  Every operation rounds its exact    *)
(* result to nearest, ties to even.  The sign of zero is not kept, and no  *)
(* value of the configurations within the bounds is subnormal.             *)
(***************************************************************************)
EXTENDS Integers, Sequences, FiniteSets, TLC

(***************************************************************************)
(* Bounds of the model.                                                    *)
(***************************************************************************)
\* scale_factor ranges over 1..MaxScale, the reciprocals of these, and the
\* ratios 2/3, 3/2, 3/4 and 4/3
MaxScale == 3
\* kernel arguments of the kernel specification: multiples of 1/2 in [-MaxArg, MaxArg]
MaxArg == 4
\* extents of the input buffer
InW == 2
InH == 2
\* extents of the part of the output that is computed; output coordinates
\* start at 0
OutW == 3
OutH == 2

(***************************************************************************)
(* float arithmetic.                                                       *)
(***************************************************************************)
Abs(n) == IF n < 0 THEN -n ELSE n

Sgn(n) == IF n < 0 THEN -1 ELSE IF n > 0 THEN 1 ELSE 0

NaN == <<0, 1000>>

\* +inf for sgn = 1, -inf for sgn = -1, NaN for sgn = 0
Inf(sgn) == <<sgn, NaN[2]>>

Zero == <<0, 0>>

Finite(a) == a[2] # NaN[2]

IsNaN(a) == a = NaN

\* number of binary digits of n >= 0
RECURSIVE BitLen(_)
BitLen(n) == IF n = 0 THEN 0 ELSE 1 + BitLen(n \div 2)

\* the float sgn * m * 2^e of a rounded mantissa 2^23 <= m <= 2^24; a result
\* beyond the largest float is an infinity
Pack(sgn, m, e) ==
    IF m = 2^24 THEN (IF e + 1 > 104 THEN Inf(sgn) ELSE <<sgn * 2^23, e + 1>>)
    ELSE IF e > 104 THEN Inf(sgn)
    ELSE <<sgn * m, e>>

\* sgn * (q + r / (2 * half)) * 2^e rounded to nearest, ties to even; sticky
\* says that there are non-zero digits beyond r
RoundShift(sgn, q, r, half, e, sticky) ==
    Pack(sgn, IF r > half \/ (r = half /\ (sticky \/ q % 2 = 1)) THEN q + 1 ELSE q, e)

\* Round for an n of len digits
RoundLen(sgn, n, e, sticky, len) ==
    IF len <= 24 THEN <<sgn * n * 2^(24 - len), e - (24 - len)>>
    ELSE RoundShift(sgn, n \div 2^(len - 24), n % 2^(len - 24), 2^(len - 25),
                    e + (len - 24), sticky)

\* the float nearest to sgn * (n + f) * 2^e, where 0 <= f < 1 and sticky
\* tells whether f > 0; n has at least 26 digits whenever sticky holds
Round(sgn, n, e, sticky) ==
    IF n = 0 THEN Zero ELSE RoundLen(sgn, n, e, sticky, BitLen(n))

\* the float nearest to n * 2^e
RoundSigned(n, e) == Round(Sgn(n), Abs(n), e, FALSE)

\* conversion of an int to float
I(n) == RoundSigned(n, 0)

One == I(1)

FNeg(a) == <<-a[1], a[2]>>

FAbs(a) == <<Abs(a[1]), a[2]>>

\* big + small where small is more than 5 digits below big: n1 and n2 are the
\* magnitudes in units of 2^(big[2] - 5), n2 cut off, st tells whether digits
\* of small were cut off
AddSticky(big, n1, n2, st, same) ==
    Round(Sgn(big[1]),
          IF same THEN n1 + n2 ELSE IF st THEN n1 - n2 - 1 ELSE n1 - n2,
          big[2] - 5, st)

AddFar(big, small, sh) ==
    AddSticky(big, Abs(big[1]) * 32,
              IF sh >= 25 THEN 0 ELSE Abs(small[1]) \div 2^sh,
              sh >= 25 \/ Abs(small[1]) % 2^sh # 0,
              Sgn(big[1]) = Sgn(small[1]))

\* big + small for finite non-zero operands with big[2] >= small[2]; the sum
\* is formed with 5 guard digits
AddAligned(big, small, d) ==
    IF d <= 5 THEN RoundSigned(big[1] * 32 + small[1] * 2^(5 - d), big[2] - 5)
    ELSE AddFar(big, small, d - 5)

FAdd(a, b) ==
    IF Finite(a) /\ Finite(b)
    THEN IF a[1] = 0 THEN b
         ELSE IF b[1] = 0 THEN a
         ELSE IF a[2] >= b[2] THEN AddAligned(a, b, a[2] - b[2])
         ELSE AddAligned(b, a, b[2] - a[2])
    ELSE IF ~Finite(a) /\ ~Finite(b) THEN (IF a = b THEN a ELSE NaN)
    ELSE IF ~Finite(a) THEN a ELSE b

FSub(a, b) == FAdd(a, FNeg(b))

\* hi0 * 2^24 + low is the 48-digit product of the mantissas
MulSum(sgn, hi0, low, e) ==
    Round(sgn, (hi0 + low \div 2^24) * 4 + (low % 2^24) \div 2^22, e,
          (low % 2^24) % 2^22 # 0)

MulCross(sgn, high, cross, low0, e) ==
    MulSum(sgn, high + cross \div 4096, (cross % 4096) * 4096 + low0, e)

\* the product of the mantissas x1 * 4096 + x0 and y1 * 4096 + y0, formed
\* from 12-digit halves
MulHalves(sgn, x1, x0, y1, y0, e) ==
    MulCross(sgn, x1 * y1, x1 * y0 + x0 * y1, x0 * y0, e)

FMul(a, b) ==
    IF Finite(a) /\ Finite(b)
    THEN IF a[1] = 0 \/ b[1] = 0 THEN Zero
         ELSE MulHalves(Sgn(a[1]) * Sgn(b[1]),
                        Abs(a[1]) \div 4096, Abs(a[1]) % 4096,
                        Abs(b[1]) \div 4096, Abs(b[1]) % 4096,
                        a[2] + b[2] + 22)
    ELSE IF a[1] = 0 \/ b[1] = 0 THEN NaN
    ELSE Inf(Sgn(a[1]) * Sgn(b[1]))

\* long division by y: q is the quotient so far, r the remainder, k the
\* number of 7-digit steps still to take
RECURSIVE DivDigits(_, _, _, _, _, _)
DivDigits(sgn, y, q, r, k, e) ==
    IF k = 0 THEN Round(sgn, q, e, r # 0)
    ELSE DivDigits(sgn, y, q * 128 + (r * 128) \div y, (r * 128) % y, k - 1, e)

\* x/0 is an infinity and 0/0 is NaN; the quotient of the mantissas is
\* formed 7 digits at a time
FDiv(a, b) ==
    IF Finite(a) /\ Finite(b)
    THEN IF b[1] = 0 THEN Inf(Sgn(a[1]))
         ELSE IF a[1] = 0 THEN Zero
         ELSE DivDigits(Sgn(a[1]) * Sgn(b[1]), Abs(b[1]),
                        Abs(a[1]) \div Abs(b[1]), Abs(a[1]) % Abs(b[1]),
                        4, a[2] - b[2] - 28)
    ELSE IF Finite(b) THEN Inf(a[1] * (IF b[1] < 0 THEN -1 ELSE 1))
    ELSE IF Finite(a) THEN (IF IsNaN(b) THEN NaN ELSE Zero)
    ELSE NaN

\* comparisons; every comparison with NaN is false
FLt(a, b) == ~IsNaN(a) /\ ~IsNaN(b) /\ a # b /\
    IF Finite(a) /\ Finite(b)
    THEN IF Sgn(a[1]) # Sgn(b[1]) THEN a[1] < b[1]
         ELSE IF a[1] > 0 THEN a[2] < b[2] \/ (a[2] = b[2] /\ a[1] < b[1])
         ELSE a[2] > b[2] \/ (a[2] = b[2] /\ a[1] < b[1])
    ELSE IF ~Finite(a) THEN a[1] < 0 ELSE b[1] > 0

FLe(a, b) == ~IsNaN(a) /\ ~IsNaN(b) /\ (a = b \/ FLt(a, b))

\* cast<int>(floor(a)) of a finite value
FFloor(a) ==
    IF a[2] >= 0 THEN a[1] * 2^a[2]
    ELSE IF a[2] <= -31 THEN (IF a[1] < 0 THEN -1 ELSE 0)
    ELSE a[1] \div 2^(-a[2])

\* cast<int>(ceil(a)) of a finite value
FCeil(a) == -FFloor(FNeg(a))

Half == FDiv(One, I(2))

\* s[1] + ... + s[n], accumulated from 0 in index order as sum() over an RDom does
RECURSIVE SumTo(_, _)
SumTo(s, n) == IF n = 0 THEN Zero ELSE FAdd(SumTo(s, n - 1), s[n])

sum(s) == SumTo(s, Len(s))

\* sin() on floats is the C library's sinf, whose last bit is the library's
\* choice: the build links either a library that returns what glibc 2.36
\* returns, or one that returns the float nearest the sine
Libms == {"glibc", "nearest"}

VARIABLES libm

\* sinf of glibc 2.36 at the positive arguments that the configurations of
\* the model pass to it: <<m, e, m', e'>> says that sinf(m * 2^e) is
\* m' * 2^e'
SinValues ==
    <<
     <<8784522, -26, 8759457, -26>>, <<8784530, -26, 8759465, -26>>,
     <<8784531, -26, 8759466, -26>>, <<8784534, -26, 8759469, -26>>,
     <<11712696, -26, 11653322, -26>>, <<11712704, -26, 11653330, -26>>,
     <<11712706, -26, 11653332, -26>>, <<11712707, -26, 11653333, -26>>,
     <<11712708, -26, 11653334, -26>>, <<11712712, -26, 11653338, -26>>,
     <<8784528, -25, 8684524, -25>>, <<8784529, -25, 8684525, -25>>,
     <<8784530, -25, 8684526, -25>>, <<8784534, -25, 8684530, -25>>,
     <<11712704, -25, 11476289, -25>>, <<11712706, -25, 11476291, -25>>,
     <<11712707, -25, 11476292, -25>>, <<11712708, -25, 11476293, -25>>,
     <<11712712, -25, 11476297, -25>>, <<13176782, -25, 12840714, -25>>,
     <<13176795, -25, 12840726, -25>>, <<13176797, -25, 12840727, -25>>,
     <<13176801, -25, 12840731, -25>>, <<8784522, -24, 16777203, -25>>,
     <<8784528, -24, 16777213, -25>>, <<8784529, -24, 16777215, -25>>,
     <<8784530, -24, 8388608, -24>>, <<8784531, -24, 8388609, -24>>,
     <<8784534, -24, 8388612, -24>>, <<10980661, -24, 10213321, -24>>,
     <<10980662, -24, 10213322, -24>>, <<10980665, -24, 10213324, -24>>,
     <<11712704, -24, 10784185, -24>>, <<11712706, -24, 10784186, -24>>,
     <<11712707, -24, 10784187, -24>>, <<11712708, -24, 10784188, -24>>,
     <<13176792, -24, 11863281, -24>>, <<13176794, -24, 11863283, -24>>,
     <<13176795, -24, 11863283, -24>>, <<13176801, -24, 11863288, -24>>,
     <<14640882, -24, 12852092, -24>>, <<14640884, -24, 12852094, -24>>,
     <<14640886, -24, 12852095, -24>>, <<15372925, -24, 13310259, -24>>,
     <<15372927, -24, 13310260, -24>>, <<15372929, -24, 13310262, -24>>,
     <<8784528, -23, 14529494, -24>>, <<8784529, -23, 14529495, -24>>,
     <<8784530, -23, 14529496, -24>>, <<8784531, -23, 14529497, -24>>,
     <<8784534, -23, 14529500, -24>>, <<9882596, -23, 15500126, -24>>,
     <<10248617, -23, 15765425, -24>>, <<10248618, -23, 15765426, -24>>,
     <<10248619, -23, 15765427, -24>>, <<10980661, -23, 16205546, -24>>,
     <<10980662, -23, 16205546, -24>>, <<11712706, -23, 16522332, -24>>,
     <<11712707, -23, 16522333, -24>>, <<11712708, -23, 16522333, -24>>,
     <<12078729, -23, 16633685, -24>>, <<12078730, -23, 16633685, -24>>,
     <<13176792, -23, 8388608, -23>>, <<13176795, -23, 8388608, -23>>,
     <<13176797, -23, 8388608, -23>>, <<14274860, -23, 16633685, -24>>,
     <<14274862, -23, 16633684, -24>>, <<14640882, -23, 16522333, -24>>,
     <<14640884, -23, 16522332, -24>>, <<15372927, -23, 16205546, -24>>,
     <<15372929, -23, 16205545, -24>>, <<16104971, -23, 15765426, -24>>,
     <<16104973, -23, 15765425, -24>>, <<16470992, -23, 15500127, -24>>,
     <<16470994, -23, 15500126, -24>>, <<16470997, -23, 15500124, -24>>,
     <<8784528, -22, 14529499, -24>>, <<8784529, -22, 14529497, -24>>,
     <<8784530, -22, 14529495, -24>>, <<8784531, -22, 14529493, -24>>,
     <<9333563, -22, 13310260, -24>>, <<9516573, -22, 12852095, -24>>,
     <<9516575, -22, 12852090, -24>>, <<9882596, -22, 11863283, -24>>,
     <<10248618, -22, 10784187, -24>>, <<10248619, -22, 10784184, -24>>,
     <<10431630, -22, 10213319, -24>>, <<10980661, -22, 8388612, -24>>,
     <<10980662, -22, 8388609, -24>>, <<10980663, -22, 16777210, -25>>,
     <<10980665, -22, 16777197, -25>>, <<11529694, -22, 12840735, -25>>,
     <<11529696, -22, 12840720, -25>>, <<11712706, -22, 11476294, -25>>,
     <<11712707, -22, 11476287, -25>>, <<12078729, -22, 8684522, -25>>,
     <<12444750, -22, 11653340, -26>>, <<12444751, -22, 11653324, -26>>,
     <<12627762, -22, 8759457, -26>>, <<13176794, -22, 10625385, -46>>,
     <<13176795, -22, -12303662, -47>>, <<13176797, -22, -9926566, -44>>,
     <<13725828, -22, -8759469, -26>>, <<13908838, -22, -11653320, -26>>,
     <<13908840, -22, -11653351, -26>>, <<14274860, -22, -8684519, -25>>,
     <<14274862, -22, -8684535, -25>>, <<14640882, -22, -11476285, -25>>,
     <<14640884, -22, -11476300, -25>>, <<14823894, -22, -12840725, -25>>,
     <<15372925, -22, -16777202, -25>>, <<15372927, -22, -16777215, -25>>,
     <<15372929, -22, -8388615, -24>>, <<15921960, -22, -10213321, -24>>,
     <<15921961, -22, -10213325, -24>>, <<16104971, -22, -10784186, -24>>,
     <<16470992, -22, -11863280, -24>>, <<16470994, -22, -11863285, -24>>,
     <<8418508, -21, -12852095, -24>>, <<8510013, -21, -13310259, -24>>,
     <<8784529, -21, -14529492, -24>>, <<8784530, -21, -14529496, -24>>,
     <<8784531, -21, -14529500, -24>>, <<9059047, -21, -15500129, -24>>,
     <<9150552, -21, -15765427, -24>>, <<9150553, -21, -15765429, -24>>,
     <<9333563, -21, -16205547, -24>>, <<9516575, -21, -16522334, -24>>,
     <<9608080, -21, -16633685, -24>>, <<9882596, -21, -8388608, -23>>,
     <<10157113, -21, -16633684, -24>>, <<10248618, -21, -16522332, -24>>,
     <<10248619, -21, -16522331, -24>>, <<10431630, -21, -16205544, -24>>,
     <<10614640, -21, -15765426, -24>>, <<10614641, -21, -15765424, -24>>,
     <<10706145, -21, -15500128, -24>>, <<10706146, -21, -15500125, -24>>,
     <<10980661, -21, -14529500, -24>>, <<10980662, -21, -14529496, -24>>,
     <<10980663, -21, -14529492, -24>>, <<11255179, -21, -13310259, -24>>,
     <<11346684, -21, -12852094, -24>>, <<11346685, -21, -12852089, -24>>,
     <<11529696, -21, -11863279, -24>>, <<11712707, -21, -10784183, -24>>,
     <<11804212, -21, -10213321, -24>>, <<12078728, -21, -8388611, -24>>,
     <<12078729, -21, -16777208, -25>>, <<12078730, -21, -16777194, -25>>,
     <<12353245, -21, -12840725, -25>>, <<12444750, -21, -11476299, -25>>,
     <<12444751, -21, -11476284, -25>>, <<12627762, -21, -8684519, -25>>,
     <<12810772, -21, -11653350, -26>>, <<12810774, -21, -11653287, -26>>,
     <<12902279, -21, -8759435, -26>>, <<13176794, -21, -10625385, -45>>,
     <<13176795, -21, 12303662, -46>>, <<14000345, -21, 12840736, -25>>,
     <<14274860, -21, 16777204, -25>>, <<14274862, -21, 8388616, -24>>,
     <<14823894, -21, 11863283, -24>>, <<15372927, -21, 14529495, -24>>,
     <<15372929, -21, 14529503, -24>>, <<15647444, -21, 15500128, -24>>,
     <<16470994, -21, 8388608, -23>>, <<8647272, -20, 15500123, -24>>,
     <<8784529, -20, 14529501, -24>>, <<8784530, -20, 14529493, -24>>,
     <<9059047, -20, 11863275, -24>>, <<9333563, -20, 16777212, -25>>,
     <<9333564, -20, 16777184, -25>>, <<9470821, -20, 12840729, -25>>,
     <<9882596, -20, -13426222, -49>>, <<10294371, -20, -12840731, -25>>,
     <<10431629, -20, -16777214, -25>>, <<10431630, -20, -8388621, -24>>,
     <<10706145, -20, -11863276, -24>>, <<10706146, -20, -11863287, -24>>,
     <<10980662, -20, -14529494, -24>>, <<10980663, -20, -14529502, -24>>,
     <<11117921, -20, -15500130, -24>>, <<11529696, -20, -8388608, -23>>,
     <<11941470, -20, -15500127, -24>>, <<12078728, -20, -14529499, -24>>,
     <<12078729, -20, -14529491, -24>>, <<12353245, -20, -11863283, -24>>,
     <<12627762, -20, -16777203, -25>>, <<12765020, -20, -12840719, -25>>,
     <<13176794, -20, -10625385, -44>>, <<13176795, -20, 12303662, -45>>,
     <<13588570, -20, 12840741, -25>>, <<13725828, -20, 8388612, -24>>,
     <<13725829, -20, 8388625, -24>>, <<14000345, -20, 11863291, -24>>,
     <<14274862, -20, 14529504, -24>>, <<14412120, -20, 15500132, -24>>,
     <<14823894, -20, 8388608, -23>>, <<15235669, -20, 15500125, -24>>,
     <<15372927, -20, 14529496, -24>>, <<15372929, -20, 14529480, -24>>,
     <<15647444, -20, 11863279, -24>>, <<15921960, -20, 8388610, -24>>,
     <<15921961, -20, 16777193, -25>>, <<16059219, -20, 12840709, -25>>,
     <<16470994, -20, -11884093, -44>>, <<8441384, -19, -12840722, -25>>,
     <<8510013, -19, -16777205, -25>>, <<8510014, -19, -8388630, -24>>,
     <<8647272, -19, -11863295, -24>>, <<8784530, -19, -14529499, -24>>,
     <<8853159, -19, -15500128, -24>>, <<9059047, -19, -8388608, -23>>,
     <<9264934, -19, -15500123, -24>>, <<9333563, -19, -14529493, -24>>,
     <<9333564, -19, -14529477, -24>>, <<9470821, -19, -11863286, -24>>,
     <<9608079, -19, -8388620, -24>>, <<9608080, -19, -16777184, -25>>,
     <<9676709, -19, -12840699, -25>>, <<9882596, -19, 13426222, -48>>,
     <<10157113, -19, 8388621, -24>>, <<10706146, -19, 8388608, -23>>,
     <<11255179, -19, 16777202, -25>>, <<11529696, -19, -11674308, -43>>,
     <<12353245, -19, -8388608, -23>>, <<13176795, -19, 12303662, -44>>,
     <<14000345, -19, 8388608, -23>>, <<14823894, -19, -10069666, -47>>,
     <<15647444, -19, -8388608, -23>>, <<16470994, -19, 11884093, -43>>,
     <<8647272, -18, 8388608, -23>>, <<9059047, -18, -11569416, -42>>,
     <<9470821, -18, -8388608, -23>>, <<9882596, -18, 13426222, -47>>,
     <<10294371, -18, 8388608, -23>>, <<10706146, -18, -12093878, -43>>,
     <<11117921, -18, -8388608, -23>>, <<11529696, -18, 11674308, -42>>,
     <<11941470, -18, 8388608, -23>>, <<12765020, -18, -8388608, -23>>,
     <<13588570, -18, 8388608, -23>>, <<14412120, -18, -8388608, -23>>,
     <<15235669, -18, 8388608, -23>>, <<16059219, -18, -8388608, -23>>,
     <<8441384, -17, 8388608, -23>>>>

SinTable ==
    [a \in {<<SinValues[i][1], SinValues[i][2]>> : i \in DOMAIN SinValues} |->
        LET i == CHOOSE i \in DOMAIN SinValues : <<SinValues[i][1], SinValues[i][2]>> = a
        IN  <<SinValues[i][3], SinValues[i][4]>>]

\* the arguments among these at which the float nearest the sine is another
\* one, with that float
SinNearestValues ==
    <<
     <<9333564, -20, 16777185, -25>>, <<15921960, -20, 8388611, -24>>>>

SinNearest ==
    [a \in {<<SinNearestValues[i][1], SinNearestValues[i][2]>> : i \in DOMAIN SinNearestValues} |->
        LET i == CHOOSE i \in DOMAIN SinNearestValues : <<SinNearestValues[i][1], SinNearestValues[i][2]>> = a
        IN  <<SinNearestValues[i][3], SinNearestValues[i][4]>>]

\* sinf of the linked library at a positive argument
sinf(a) == IF libm = "nearest" /\ a \in DOMAIN SinNearest THEN SinNearest[a] ELSE SinTable[a]

\* sin is odd, sin(0) = 0, and the sine of NaN or an infinity is NaN
sin(a) ==
    IF ~Finite(a) THEN NaN
    ELSE IF a[1] = 0 THEN Zero
    ELSE IF a[1] < 0 THEN FNeg(sinf(FNeg(a)))
    ELSE sinf(a)

(***************************************************************************)
(* The kernels.                                                            *)
(***************************************************************************)
kernel_box(x) ==
    LET xx == FAbs(x)
    IN  IF FLe(xx, Half) THEN One ELSE Zero

kernel_linear(x) ==
    LET xx == FAbs(x)
    IN  IF FLt(xx, One) THEN FSub(One, xx) ELSE Zero

kernel_cubic(x) ==
    LET xx == FAbs(x)
        xx2 == FMul(xx, xx)
        xx3 == FMul(xx2, xx)
        a == FNeg(Half)
    IN  IF FLt(xx, One)
        THEN FAdd(FSub(FMul(FAdd(a, I(2)), xx3), FMul(FAdd(a, I(3)), xx2)), One)
        ELSE IF FLt(xx, I(2))
        THEN FSub(FAdd(FSub(FMul(a, xx3), FMul(FMul(I(5), a), xx2)),
                       FMul(FMul(I(8), a), xx)),
                  FMul(I(4), a))
        ELSE Zero

\* float(M_PI) = 13176795 / 2^22 = 3.14159274..., which is not pi
FloatPi == <<13176795, -22>>

sinc(x) == FDiv(sin(FMul(FloatPi, x)), x)

kernel_lanczos(x) ==
    LET value == FMul(sinc(x), sinc(FDiv(x, I(3))))
        value1 == IF x = Zero THEN One ELSE value
    IN  IF FLt(I(3), x) \/ FLt(x, I(-3)) THEN Zero ELSE value1

InterpolationType == {"box", "linear", "cubic", "lanczos"}

kernel_info ==
    [box |-> [taps |-> 1], linear |-> [taps |-> 2],
     cubic |-> [taps |-> 4], lanczos |-> [taps |-> 6]]

Kernel(type, x) ==
    CASE type = "box" -> kernel_box(x)
      [] type = "linear" -> kernel_linear(x)
      [] type = "cubic" -> kernel_cubic(x)
      [] type = "lanczos" -> kernel_lanczos(x)

(***************************************************************************)
(* Resize::generate.  The channel coordinate c is carried unchanged        *)
(* through every Func and is left out; x and y share one set of            *)
(* definitions, since the source repeats each line for the two axes.       *)
(***************************************************************************)
\* the generator parameters, the pipeline inputs and the realization's state
VARIABLES interpolation_type, upsample, scale_factor, input,
          kernel_x, kernel_y, output, reads, pos
\* what the build target's min/max make of a NaN operand in clamp(): "unset"
\* until the first NaN reaches clamp(), the same outcome from then on
VARIABLES target_nan
\* a single kernel evaluation: the kernel, its argument, its result
VARIABLES kname, karg, kval
\* the schedule of output: its extents, the next tile column of each parallel
\* task, and the regions written so far
VARIABLES out_extent, next_tile, written

\* libm: the C library of the build
cfgvars == <<interpolation_type, upsample, scale_factor, input, libm>>

rvars == <<cfgvars, target_nan, kernel_x, kernel_y, output, reads, pos>>

kvars == <<kname, karg, kval>>

svars == <<out_extent, next_tile, written>>

vars == <<rvars, kvars, svars>>

\* mutant: out-of-range coordinates wrap around instead of clamping
repeat_edge_wrap(c, min, extent) == min + ((c - min) % extent)

\* BoundaryConditions::repeat_edge along one axis
repeat_edge(c, min, extent) ==
    IF c < min THEN min ELSE IF c > min + extent - 1 THEN min + extent - 1 ELSE c

\* the input coordinate that clamped(x, y, c) reads
clamped_coord(x, y) ==
    <<repeat_edge(x, input.min[1], input.extent[1]),
      repeat_edge(y, input.min[2], input.extent[2])>>

clamped(x, y) == input.px[clamped_coord(x, y)]

\* mutant: the kernel is scaled by scale_factor whatever upsample says
kernel_scaling_always(up) == scale_factor

kernel_scaling(up) == IF up THEN One ELSE scale_factor

native_taps == kernel_info[interpolation_type].taps

\* mutant: the radius is the whole kernel width, not half of it
kernel_radius_full(up) ==
    FDiv(I(kernel_info[interpolation_type].taps), IF up THEN One ELSE scale_factor)

kernel_radius(up) == FDiv(FMul(Half, I(native_taps)), kernel_scaling(up))

\* mutant: the tap count is not widened when downsampling
kernel_taps_native(up) == kernel_info[interpolation_type].taps

kernel_taps(up) == FCeil(FDiv(I(native_taps), kernel_scaling(up)))

\* mutant: the output pixel centre is mapped without the final - 0.5
source_nohalf(o) == FDiv(FAdd(I(o), Half), scale_factor)

\* sourcex / sourcey
source(o) == FSub(FDiv(FAdd(I(o), Half), scale_factor), Half)

\* mutant: the first tap is found by rounding down instead of up
begin_floor(up, o) ==
    FFloor(FSub(FSub(FDiv(FAdd(I(o), Half), scale_factor), Half),
                FDiv(FMul(Half, I(kernel_info[interpolation_type].taps)),
                     IF up THEN One ELSE scale_factor)))

\* beginx / beginy
begin(up, o) == FCeil(FSub(source(o), kernel_radius(up)))

\* the argument the kernel is called with for tap k of output coordinate o
kernel_arg(up, o, k) ==
    FMul(FSub(I(k + begin(up, o)), source(o)), kernel_scaling(up))

\* unnormalized_kernel_x / unnormalized_kernel_y
unnormalized_kernel(up, o, k) == Kernel(interpolation_type, kernel_arg(up, o, k))

\* kernel_sum_x / kernel_sum_y: the sum over the RDom r = 0 .. kernel_taps-1
\* (sequence index r + 1) of the unnormalized weights un
kernel_sum(un) == sum(un)

\* kernel_x / kernel_y, given the unnormalized weights and their sum
normalized_kernel(un, s) == [i \in 1..Len(un) |-> FDiv(un[i], s)]

Table(o, b, un, s) ==
    [o |-> o, begin |-> b, unnormalized |-> un, kernel_sum |-> s,
     kernel |-> normalized_kernel(un, s)]

TableOf(o, b, un) == Table(o, b, un, kernel_sum(un))

\* begin, unnormalized_kernel, kernel_sum and kernel of one output coordinate o
KernelTable(up, o) ==
    TableOf(o, begin(up, o),
            [i \in 1..kernel_taps(up) |-> unnormalized_kernel(up, o, i - 1)])

\* upsample: resized_x(x, yy, c), for the x whose table is kx
resized_x_first(kx, yy) ==
    sum([i \in 1..Len(kx.kernel) |->
            FMul(kx.kernel[i], clamped(i - 1 + kx.begin, yy))])

\* upsample: resized_y(x, y, c), reading resized_x
resized_y_second(kx, ky) ==
    sum([j \in 1..Len(ky.kernel) |->
            FMul(ky.kernel[j], resized_x_first(kx, j - 1 + ky.begin))])

\* mutant: the first pass of the downsampling order indexes clamped as (y, x)
resized_y_first_swapped(xx, ky) ==
    sum([j \in 1..Len(ky.kernel) |->
            FMul(ky.kernel[j], input.px[<<repeat_edge(j - 1 + ky.begin, input.min[1], input.extent[1]),
                                         repeat_edge(xx, input.min[2], input.extent[2])>>])])

\* downsample: resized_y(xx, y, c), for the y whose table is ky
resized_y_first(xx, ky) ==
    sum([j \in 1..Len(ky.kernel) |->
            FMul(ky.kernel[j], clamped(xx, j - 1 + ky.begin))])

\* downsample: resized_x(x, y, c), reading resized_y
resized_x_second(kx, ky) ==
    sum([i \in 1..Len(kx.kernel) |->
            FMul(kx.kernel[i], resized_y_first(i - 1 + kx.begin, ky))])

\* the value handed to clamp() for the output element with tables kx, ky
resized(up, kx, ky) ==
    IF up THEN resized_y_second(kx, ky) ELSE resized_x_second(kx, ky)

\* mutant: the output is stored without clamping
clamp_none(v, lo, hi) == v

\* clamp(v, lo, hi) = max(min(v, hi), lo).  The result for a NaN depends on
\* how the target's min and max treat NaN: one of NaN, lo, hi, fixed per build.
NaNOutcomes == {"nan", "lo", "hi"}

clamp_nan(outcome, lo, hi) ==
    CASE outcome = "lo" -> lo [] outcome = "hi" -> hi [] OTHER -> NaN

clamp(v, lo, hi) ==
    IF IsNaN(v) THEN clamp_nan(target_nan, lo, hi)
    ELSE IF FLt(v, lo) THEN lo
    ELSE IF FLt(hi, v) THEN hi
    ELSE v

\* every (requested coordinate, input coordinate read) of one output element
tap_reads(kx, ky) ==
    {<<i - 1 + kx.begin, j - 1 + ky.begin,
       clamped_coord(i - 1 + kx.begin, j - 1 + ky.begin)>> :
        i \in 1..Len(kx.kernel), j \in 1..Len(ky.kernel)}

\* the tile sizes of Resize::schedule
\* output.tile(x, y, xi, yi, 32, 8) when downsampling
DownTileW == 32

DownTileH == 8

\* output.tile(x, y, xi, yi, 16, 64) when upsampling
UpTileW == 16

UpTileH == 64

TileW == IF upsample THEN UpTileW ELSE DownTileW

TileH == IF upsample THEN UpTileH ELSE DownTileH

(***************************************************************************)
(* Inputs.                                                                 *)
(***************************************************************************)
ScaleFactors ==
    {I(n) : n \in 1..MaxScale} \cup {FDiv(One, I(n)) : n \in 1..MaxScale}
    \cup {FDiv(I(r[1]), I(r[2])) : r \in {<<2, 3>>, <<3, 2>>, <<3, 4>>, <<4, 3>>}}

Coords(min, w, h) == {<<x, y>> : x \in min[1]..(min[1] + w - 1), y \in min[2]..(min[2] + h - 1)}

Buffer(min, px) == [min |-> min, extent |-> <<InW, InH>>, px |-> px]

\* one bright pixel in a corner, the complement of one, and a ramp with all
\* samples different
Impulse(min, p) == Buffer(min, [q \in Coords(min, InW, InH) |-> IF q = p THEN One ELSE Zero])

Hole(min, p) == Buffer(min, [q \in Coords(min, InW, InH) |-> IF q = p THEN Zero ELSE One])

Ramp(min) ==
    Buffer(min, [q \in Coords(min, InW, InH) |->
                   FDiv(I((q[1] - min[1]) + InW * (q[2] - min[2])), I(InW * InH))])

Inputs ==
    {Impulse(<<0, 0>>, p) : p \in {<<0, 0>>, <<InW - 1, InH - 1>>}}
    \cup {Hole(<<0, 0>>, <<0, 0>>), Ramp(<<0, 0>>), Ramp(<<1, 1>>)}

OutPixels == OutW * OutH

Init ==
    /\ interpolation_type \in InterpolationType
    /\ upsample \in BOOLEAN
    /\ scale_factor \in ScaleFactors
    /\ input \in Inputs
    /\ libm \in (IF interpolation_type = "lanczos" THEN Libms ELSE {"glibc"})
    /\ target_nan = "unset"
    /\ kernel_x = <<>>
    /\ kernel_y = <<>>
    /\ output = <<>>
    /\ reads = {}
    /\ pos = 0
    /\ kname = interpolation_type
    /\ karg = Zero
    /\ kval = <<>>
    /\ out_extent = <<TileW, TileH>>
    /\ next_tile = <<>>
    /\ written = {}

\* kernel_x.compute_root(): the table of every output column, before
\* anything of output
ComputeKernelX ==
    /\ kernel_x = <<>>
    /\ kernel_x' = [x \in 0..(OutW - 1) |-> KernelTable(upsample, x)]
    /\ UNCHANGED <<cfgvars, target_nan, kernel_y, output, reads, pos, kvars, svars>>

\* kernel_y.compute_at(output, y): on entering an iteration of the loop over
\* tile rows, the tables of the rows of that tile row.  The computed rows
\* 0 .. OutH-1 lie in the first tile row.
ComputeKernelY ==
    /\ kernel_x # <<>>
    /\ kernel_y = <<>>
    /\ kernel_y' = [y \in 0..(OutH - 1) |-> KernelTable(upsample, y)]
    /\ UNCHANGED <<cfgvars, target_nan, kernel_x, output, reads, pos, kvars, svars>>

\* one element of output; the elements of a tile are visited with yi outside
\* xi, and the computed columns 0 .. OutW-1 lie in the first tile
ComputePixel ==
    /\ kernel_y # <<>>
    /\ pos < OutPixels
    /\ LET x == pos % OutW
           y == pos \div OutW
           kx == kernel_x[x]
           ky == kernel_y[y]
           v == resized(upsample, kx, ky)
       IN  /\ target_nan' \in (IF IsNaN(v) /\ target_nan = "unset"
                                THEN NaNOutcomes ELSE {target_nan})
           /\ output' = [p \in DOMAIN output \cup {<<x, y>>} |->
                           IF p # <<x, y>> THEN output[p]
                           ELSE IF IsNaN(v) THEN clamp_nan(target_nan', Zero, One)
                           ELSE clamp(v, Zero, One)]
           /\ reads' = tap_reads(kx, ky)
    /\ pos' = pos + 1
    /\ UNCHANGED <<cfgvars, kernel_x, kernel_y, kvars, svars>>

Next == ComputeKernelX \/ ComputeKernelY \/ ComputePixel

Spec == Init /\ [][Next]_vars

(***************************************************************************)
(* Properties of the resize pipeline.                                      *)
(***************************************************************************)
\* the kernel tables the realization holds
Tables ==
    {kernel_x[x] : x \in DOMAIN kernel_x} \cup {kernel_y[y] : y \in DOMAIN kernel_y}

\* the flag agrees with the direction of the scale factor, or does not widen
Consistent == upsample \/ FLe(scale_factor, One)

\* (k + begin - source) of tap index i (tap k = i - 1) of table t
TapOffset(t, i) == FSub(I(i - 1 + t.begin), source(t.o))

LastX == (pos - 1) % OutW

LastY == (pos - 1) \div OutW

\* the input sample nearest to (x, y), by the buffer's own bounds
EdgeSample(x, y) ==
    LET lo == input.min
        hi == <<input.min[1] + input.extent[1] - 1, input.min[2] + input.extent[2] - 1>>
        near(c, a, b) == IF c < a THEN a ELSE IF c > b THEN b ELSE c
    IN  input.px[<<near(x, lo[1], hi[1]), near(y, lo[2], hi[2])>>]

\* 2^-20: what the roundings of a float computation on values of size 1 are
\* allowed to add up to
Tolerance == <<8388608, -43>>

\* equal up to rounding
Near(a, b) == Finite(a) /\ Finite(b) /\ FLe(FAbs(FSub(a, b)), Tolerance)

\* the tap sum is a non-zero number and the weights sum to 1 up to rounding
Normalized(t) ==
    /\ Finite(t.kernel_sum) /\ t.kernel_sum # Zero
    /\ Near(sum(t.kernel), One)

\* C1 as stated: for every kernel, every scale factor and either value of
\* upsample, each table's tap sum is non-zero and its weights sum to 1 (up to
\* the rounding of the float weights).
Claim_C1 == \A t \in Tables : Normalized(t)

\* C1 amended: the same, when upsample is true or scale_factor <= 1.
Thm_C1 == Consistent => \A t \in Tables : Normalized(t)

Wit_C1 ==
    /\ interpolation_type = "cubic" /\ ~upsample /\ scale_factor = FDiv(I(3), I(4))
    /\ kernel_y # <<>>
    /\ \A t \in Tables : Normalized(t) /\ Len(t.kernel) = 6
    /\ \E t \in Tables : sum(t.kernel) # One

\* C10 as stated: every tap's source-space offset d = k + begin - source
\* lies in [-radius, radius].
Claim_C10 ==
    LET radius == kernel_radius(upsample)
    IN  \A t \in Tables : \A i \in 1..Len(t.kernel) :
            /\ FLe(FNeg(radius), TapOffset(t, i))
            /\ FLe(TapOffset(t, i), radius)

\* native_taps / kernel_scaling is not a whole number
FractionalTaps ==
    I(FCeil(FDiv(I(native_taps), kernel_scaling(upsample))))
        # FDiv(I(native_taps), kernel_scaling(upsample))

\* C10 amended: every tap's offset d satisfies -radius <= d < radius + 1; d
\* exceeds radius only for the last tap, only when native_taps/kernel_scaling
\* is not an integer, and that tap's unnormalized weight is 0.
Thm_C10 ==
    LET radius == kernel_radius(upsample)
        taps == kernel_taps(upsample)
        fractional == FractionalTaps
    IN  \A t \in Tables :
            /\ Len(t.kernel) = taps
            /\ \A i \in 1..Len(t.kernel) :
                  LET d == TapOffset(t, i)
                  IN  /\ FLe(FNeg(radius), d)
                      /\ FLt(d, FAdd(radius, One))
                      /\ FLt(radius, d) =>
                            /\ i = Len(t.kernel)
                            /\ fractional
                            /\ t.unnormalized[i] = Zero

Wit_C10 ==
    /\ interpolation_type = "box" /\ ~upsample /\ scale_factor = FDiv(I(3), I(4))
    /\ \E t \in Tables :
          /\ FLt(kernel_radius(upsample), TapOffset(t, Len(t.kernel)))
          /\ t.unnormalized[Len(t.kernel)] = Zero
          /\ t.kernel_sum = One
    /\ \E t \in Tables : t.kernel_sum = I(2)

\* the weights of table t are 1 at the tap that reads source index t.o and 0
\* at every other tap: exactly, or up to rounding
UnitTap(t, exact) ==
    \A i \in 1..Len(t.kernel) :
        LET w == IF i - 1 + t.begin = t.o THEN One ELSE Zero
        IN  IF exact THEN t.kernel[i] = w ELSE Near(t.kernel[i], w)

\* C2: with scale_factor = 1, for every kernel and either value of upsample,
\* every weight table has weight 1 on the source pixel and 0 on every other
\* tap, and every output element inside the input's extent equals the input
\* element at the same coordinate: exactly for box, linear and cubic, up to
\* rounding for lanczos.
Thm_C2 ==
    scale_factor = One =>
        /\ \A t \in Tables :
              /\ \E i \in 1..Len(t.kernel) : i - 1 + t.begin = t.o
              /\ UnitTap(t, interpolation_type # "lanczos")
        /\ \A p \in DOMAIN output \cap DOMAIN input.px :
              IF interpolation_type = "lanczos" THEN Near(output[p], input.px[p])
              ELSE output[p] = input.px[p]

Wit_C2 ==
    /\ scale_factor = One /\ interpolation_type = "lanczos" /\ upsample
    /\ input = Ramp(<<1, 1>>)
    /\ <<2, 1>> \in DOMAIN output /\ Near(output[<<2, 1>>], FDiv(One, I(4)))

\* C3: with the box kernel, upsample = true and an integer scale factor n,
\* every output element (x, y) equals the input at (floor(x/n), floor(y/n)),
\* clamped to the input edge.
Thm_C3 ==
    \A n \in 1..MaxScale :
        (interpolation_type = "box" /\ upsample /\ scale_factor = I(n)) =>
            \A p \in DOMAIN output : output[p] = EdgeSample(p[1] \div n, p[2] \div n)

Wit_C3 ==
    /\ interpolation_type = "box" /\ upsample /\ scale_factor = I(2)
    /\ input = Ramp(<<0, 0>>)
    /\ pos = OutPixels

\* the n-by-n input block of output element p, row by row
Block(n, p) ==
    [i \in 1..(n * n) |-> EdgeSample(n * p[1] + ((i - 1) % n), n * p[2] + ((i - 1) \div n))]

\* C4: with the box kernel, upsample = false and scale_factor = 1/n, the tap
\* window of output coordinate o is n*o .. n*o+n-1 with every weight 1/n,
\* and every output element is, up to rounding, the mean of its n-by-n input
\* block.
Thm_C4 ==
    \A n \in 1..MaxScale :
        (interpolation_type = "box" /\ ~upsample /\ scale_factor = FDiv(One, I(n))) =>
            /\ \A t \in Tables :
                  /\ t.begin = n * t.o
                  /\ t.kernel = [i \in 1..n |-> FDiv(One, I(n))]
            /\ \A p \in DOMAIN output :
                  Near(output[p], FDiv(sum(Block(n, p)), I(n * n)))

Wit_C4 ==
    /\ interpolation_type = "box" /\ ~upsample /\ scale_factor = Half
    /\ input = Ramp(<<0, 0>>)
    /\ <<0, 0>> \in DOMAIN output /\ output[<<0, 0>>] = FDiv(I(3), I(8))

\* every recorded read is at the in-range coordinate nearest to its tap
ReadsClamped ==
    \A r \in reads :
        LET near(c, a, b) == IF c < a THEN a ELSE IF c > b THEN b ELSE c
        IN  /\ r[3] \in DOMAIN input.px
            /\ r[3][1] = near(r[1], input.min[1], input.min[1] + input.extent[1] - 1)
            /\ r[3][2] = near(r[2], input.min[2], input.min[2] + input.extent[2] - 1)

\* C5: every sample read while computing an output element comes from a
\* coordinate inside the input buffer, the in-range coordinate nearest to
\* the tap's coordinate on each axis, and no step changes the input buffer.
Thm_C5 == [][ReadsClamped' /\ input' = input]_vars

Wit_C5 ==
    /\ \E r \in reads : r[1] < input.min[1] /\ r[2] < input.min[2]
    /\ \E r \in reads : r[1] > input.min[1] + input.extent[1] - 1
    /\ \E r \in reads : r[2] > input.min[2] + input.extent[2] - 1

InRange(v) == Finite(v) /\ FLe(Zero, v) /\ FLe(v, One)

\* C6 as stated: for every kernel, every scale factor and either value of
\* upsample, every element written to the output is a number in [0, 1].
Claim_C6 == \A p \in DOMAIN output : InRange(output[p])

\* C6 amended: the same, when upsample is true or scale_factor <= 1.
Thm_C6 == Consistent => \A p \in DOMAIN output : InRange(output[p])

Wit_C6 ==
    /\ pos > 1 /\ Consistent
    /\ FLt(resized(upsample, kernel_x[LastX], kernel_y[LastY]), Zero)
    /\ output[<<LastX, LastY>>] = Zero
    /\ \E p \in DOMAIN output : output[p] = One

\* the values the pipeline generated with upsample = up can give element
\* (x, y): one value, or for a NaN whatever the build's clamp makes of it
PipelineOutput(up, x, y) ==
    LET v == resized(up, KernelTable(up, x), KernelTable(up, y))
    IN  IF ~IsNaN(v) THEN {clamp(v, Zero, One)}
        ELSE IF target_nan = "unset" THEN {clamp_nan(c, Zero, One) : c \in NaNOutcomes}
        ELSE {clamp_nan(target_nan, Zero, One)}

\* the same value, up to rounding
Same(a, b) == (IsNaN(a) /\ IsNaN(b)) \/ Near(a, b)

\* C7 as stated: the pipelines selected by upsample = true and by
\* upsample = false give every output element the same value (up to the
\* rounding of the two orders of summation).
Claim_C7 ==
    pos > 0 =>
        \E w \in PipelineOutput(~upsample, LastX, LastY) : Same(output[<<LastX, LastY>>], w)

\* C7 amended: on the same kernel tables with non-zero tap sums, resampling
\* x then y and resampling y then x give the same value up to rounding; the
\* two pipelines selected by upsample agree when scale_factor = 1.
Thm_C7 ==
    pos > 0 =>
        /\ (Normalized(kernel_x[LastX]) /\ Normalized(kernel_y[LastY])) =>
              Near(resized_y_second(kernel_x[LastX], kernel_y[LastY]),
                   resized_x_second(kernel_x[LastX], kernel_y[LastY]))
        /\ scale_factor = One =>
              \E w \in PipelineOutput(~upsample, LastX, LastY) :
                  Same(output[<<LastX, LastY>>], w)

Wit_C7 ==
    /\ pos > 0 /\ interpolation_type = "cubic" /\ scale_factor = FDiv(I(3), I(2)) /\ upsample
    /\ input = Ramp(<<1, 1>>)
    /\ Normalized(kernel_x[LastX]) /\ Normalized(kernel_y[LastY])
    /\ \E r \in reads : r[1] < input.min[1] /\ r[2] < input.min[2]
    /\ resized(upsample, kernel_x[LastX], kernel_y[LastY]) \notin {Zero, One}
    /\ resized_y_second(kernel_x[LastX], kernel_y[LastY])
          # resized_x_second(kernel_x[LastX], kernel_y[LastY])

(***************************************************************************)
(* The kernels on their own: one kernel applied to one argument.           *)
(***************************************************************************)
KArgs == {FDiv(I(m), I(2)) : m \in (-2 * MaxArg)..(2 * MaxArg)}

KInit ==
    /\ kname \in InterpolationType
    /\ karg \in KArgs
    /\ kval = <<>>
    /\ interpolation_type = kname
    /\ upsample = FALSE
    /\ scale_factor = One
    /\ input = Ramp(<<0, 0>>)
    /\ libm \in (IF kname = "lanczos" THEN Libms ELSE {"glibc"})
    /\ target_nan = "unset"
    /\ kernel_x = <<>>
    /\ kernel_y = <<>>
    /\ output = <<>>
    /\ reads = {}
    /\ pos = 0
    /\ out_extent = <<TileW, TileH>>
    /\ next_tile = <<>>
    /\ written = {}

\* sin(pi x) / (pi x), with the float nearest pi for pi
NormalizedSinc(x) == FDiv(sin(FMul(FloatPi, x)), FMul(FloatPi, x))

\* C8: kernel_lanczos(t) is sinc(t) * sinc(t/3) with sinc(x) = sin(pi x)/(pi x)
\* for 0 < |t| < 3, is 1 at t = 0 and is 0 for |t| >= 3, each up to rounding.
Claim_C8 ==
    (kname = "lanczos" /\ kval # <<>>) =>
        IF karg = Zero THEN kval = One
        ELSE IF FLe(I(3), FAbs(karg)) THEN Near(kval, Zero)
        ELSE Near(kval, FMul(NormalizedSinc(karg), NormalizedSinc(FDiv(karg, I(3)))))

KEval ==
    /\ kval = <<>>
    /\ kval' = Kernel(kname, karg)
    /\ UNCHANGED <<kname, karg, rvars, svars>>

KNext == KEval

SpecKernel == KInit /\ [][KNext]_vars

(***************************************************************************)
(* Resize::schedule: output.tile(x, y, xi, yi, w, h).parallel(y).          *)
(* The loop nest is y (tile rows, parallel), x (tile columns), yi, xi.     *)
(***************************************************************************)
\* the largest output extent, in tiles
MaxTilesX == 2

\* three tile rows: the last, the one before it, and one that shares no row
\* with the last
MaxTilesY == 3

\* number of outer iterations of a loop of the given extent split by factor
OuterExtent(extent, factor) == (extent + factor - 1) \div factor

\* mutant: a tile past the end of the extent is cut at the extent
TileSpan_cut(t, factor, extent) ==
    <<t * factor, (IF (t + 1) * factor < extent THEN (t + 1) * factor ELSE extent) - 1>>

\* the coordinates outer iteration t of a split loop covers.  tile() is
\* called without a TailStrategy, which for output's pure definition is
\* ShiftInwards: an iteration that would pass the end of the extent starts
\* at extent - factor instead, and computes some coordinates again.
TileSpan(t, factor, extent) ==
    LET base == IF (t + 1) * factor > extent THEN extent - factor ELSE t * factor
    IN  <<base, base + factor - 1>>

\* parallel(y): one task per tile row
Tasks == 0..(OuterExtent(out_extent[2], TileH) - 1)

\* ShiftInwards needs an extent of at least the split factor: a smaller
\* output is rejected before anything is computed
SInit ==
    /\ upsample \in BOOLEAN
    /\ out_extent \in (TileW..(MaxTilesX * TileW)) \X (TileH..(MaxTilesY * TileH))
    /\ next_tile = [t \in Tasks |-> 0]
    /\ written = {}
    /\ interpolation_type = "cubic"
    /\ scale_factor = One
    /\ input = Ramp(<<0, 0>>)
    /\ libm = "glibc"
    /\ target_nan = "unset"
    /\ kernel_x = <<>>
    /\ kernel_y = <<>>
    /\ output = <<>>
    /\ reads = {}
    /\ pos = 0
    /\ kname = interpolation_type
    /\ karg = Zero
    /\ kval = <<>>

\* task t computes and stores its next tile
WriteTile(t) ==
    /\ next_tile[t] < OuterExtent(out_extent[1], TileW)
    /\ written' = written \cup
          {[task |-> t,
            xs |-> TileSpan(next_tile[t], TileW, out_extent[1]),
            ys |-> TileSpan(t, TileH, out_extent[2])]}
    /\ next_tile' = [next_tile EXCEPT ![t] = @ + 1]
    /\ UNCHANGED <<out_extent, rvars, kvars>>

SNext == \E t \in Tasks : WriteTile(t)

SpecSchedule == SInit /\ [][SNext]_vars

Overlap(a, b) == a[1] <= b[2] /\ b[1] <= a[2]

\* how many coordinates two spans share
Shared(a, b) ==
    LET lo == IF a[1] > b[1] THEN a[1] ELSE b[1]
        hi == IF a[2] < b[2] THEN a[2] ELSE b[2]
    IN  IF hi < lo THEN 0 ELSE hi - lo + 1

\* C9 as stated: no output element is written by two different parallel
\* tasks, for every output extent, multiples of the tile size or not.
Claim_C9 ==
    \A a \in written : \A b \in written :
        a.task # b.task => ~(Overlap(a.xs, b.xs) /\ Overlap(a.ys, b.ys))

LastTask == OuterExtent(out_extent[2], TileH) - 1

\* C9 amended: every write lies inside the output extent; two different
\* tasks write a common row only when the y extent is not a multiple of the
\* tile height, and then only the last task and the one before it do, on the
\* TileH - (extent mod TileH) rows before the last full tile row's end.
Thm_C9 ==
    \A a \in written : \A b \in written :
        /\ 0 <= a.xs[1] /\ a.xs[2] < out_extent[1]
        /\ 0 <= a.ys[1] /\ a.ys[2] < out_extent[2]
        /\ a.task < b.task =>
              Shared(a.ys, b.ys) =
                  IF b.task = LastTask /\ a.task = LastTask - 1
                  THEN (TileH - (out_extent[2] % TileH)) % TileH
                  ELSE 0

Wit_C9 ==
    /\ out_extent[1] % TileW # 0 /\ out_extent[2] % TileH # 0
    /\ LastTask = 2
    /\ \E a \in written : \E b \in written :
          a.task = 1 /\ b.task = 2 /\ Overlap(a.xs, b.xs) /\ Shared(a.ys, b.ys) > 0
    /\ \E a \in written : \E b \in written :
          a.task = 0 /\ b.task = 2 /\ Overlap(a.xs, b.xs) /\ Shared(a.ys, b.ys) = 0
    /\ \E a \in written : \E b \in written :
          a.task = 0 /\ b.task = 1 /\ Overlap(a.xs, b.xs) /\ Shared(a.ys, b.ys) = 0
    /\ \A t \in Tasks : next_tile[t] = 2
====
